---- MODULE Spec2Model ----
(***************************************************************************)
(* Model of supabase/functions/send-registration-email/index.ts: the edge  *)
(* function that validates a resend request against a registration record  *)
(* and dispatches the verification mail.                                   *)
(*                                                                         *)
(* A JavaScript string is a sequence of one-character strings, so that     *)
(* length, the email pattern, the escaping of the name and the percent-    *)
(* encoding of the token are computed character by character.  A           *)
(* JavaScript value is a record [t |-> its typeof class, v |-> its         *)
(* characters].  Times are integer milliseconds since the epoch, as        *)
(* Date.getTime() returns them.                                            *)
(***************************************************************************)
EXTENDS Integers, Sequences, FiniteSets, TLC

VARIABLES db, req

vars == <<db, req>>

(***************************************************************************)
(* Bounds of the model.                                                    *)
(***************************************************************************)
\* Longest display name enumerated for the composer.
MaxLen == 3
\* Number of requests in flight at once in the concurrent specification.
NumReqs == 2

(***************************************************************************)
(* Program constants.                                                      *)
(***************************************************************************)
MaxNameLen == 200
MaxEmailLen == 254
ExemptSeconds == 5
WindowSeconds == 60

(***************************************************************************)
(* JavaScript values.                                                      *)
(***************************************************************************)
Undefined == [t |-> "undefined", v |-> <<>>]
Null == [t |-> "null", v |-> <<>>]
Num(digits) == [t |-> "number", v |-> digits]
Str(chars) == [t |-> "string", v |-> chars]

\* !x of JavaScript: undefined, null, 0 and "" are falsy.
Falsy(x) ==
    \/ x.t \in {"undefined", "null"}
    \/ x.t = "string" /\ x.v = <<>>
    \/ x.t = "number" /\ x.v = <<"0">>

TypeofString(x) == x.t = "string"

\* The characters \s of a regular expression that the inputs use.
Whitespace == {" "}

\* /^[^\s@]+@[^\s@]+\.[^\s@]+$/.test(s): one "@", no whitespace, a non-empty
\* local part, and after the "@" a "." with a character on each side of it.
EmailRegexTest(s) ==
    \E i \in 1..Len(s) :
        /\ s[i] = "@"
        /\ i > 1
        /\ \A k \in 1..Len(s) : s[k] \notin Whitespace /\ (s[k] = "@" => k = i)
        /\ \E j \in (i + 2)..(Len(s) - 1) : s[j] = "."

\* validateInput(data); the null it returns for a valid payload is "".
NoError == ""

validateInput(data) ==
    IF Falsy(data.name) \/ ~TypeofString(data.name) \/ Len(data.name.v) > MaxNameLen
    THEN "Invalid name"
    ELSE IF Falsy(data.email) \/ ~TypeofString(data.email)
            \/ Len(data.email.v) > MaxEmailLen
    THEN "Invalid email"
    ELSE IF ~EmailRegexTest(data.email.v)
    THEN "Invalid email format"
    ELSE IF Falsy(data.registrationId) \/ ~TypeofString(data.registrationId)
    THEN "Invalid registration ID"
    ELSE IF Falsy(data.verificationToken) \/ ~TypeofString(data.verificationToken)
    THEN "Invalid verification token"
    ELSE NoError

(***************************************************************************)
(* Responses.                                                              *)
(***************************************************************************)
corsHeaders ==
    { <<"Access-Control-Allow-Origin", "*">>,
      <<"Access-Control-Allow-Headers",
        "authorization, x-client-info, apikey, content-type">> }

JsonHeadersWithoutCors == { <<"Content-Type", "application/json">> }

\* { "Content-Type": "application/json", ...corsHeaders }
JsonHeaders == { <<"Content-Type", "application/json">> } \cup corsHeaders

NoResponse == [status |-> 0, body |-> "", headers |-> {}]

\* new Response(null, { headers: corsHeaders }): the default status is 200.
OptionsResponse == [status |-> 200, body |-> "", headers |-> corsHeaders]

\* new Response(JSON.stringify({ error: message }), { status, headers }).
ErrorResponse(status, message) ==
    [status |-> status, body |-> message, headers |-> JsonHeaders]

\* new Response(JSON.stringify({ success: true }), { status: 200, headers }).
SuccessResponse == [status |-> 200, body |-> "success", headers |-> JsonHeaders]

\* The catch block of the handler.
CatchResponse == ErrorResponse(500, "Failed to send email")

(***************************************************************************)
(* The composer: the verification link and the HTML body.                  *)
(***************************************************************************)
\* s.replace(/c/g, rep): every occurrence of the character c, left to right.
RECURSIVE ReplaceAll(_, _, _)
ReplaceAll(s, c, rep) ==
    IF s = <<>> THEN <<>>
    ELSE (IF Head(s) = c THEN rep ELSE <<Head(s)>>) \o ReplaceAll(Tail(s), c, rep)

\* s.replace(c, rep) with a pattern that is not global: the first occurrence only.
RECURSIVE ReplaceFirst(_, _, _)
ReplaceFirst(s, c, rep) ==
    IF s = <<>> THEN <<>>
    ELSE IF Head(s) = c THEN rep \o Tail(s)
    ELSE <<Head(s)>> \o ReplaceFirst(Tail(s), c, rep)

EntityLt == <<"&", "l", "t", ";">>
EntityGt == <<"&", "g", "t", ";">>

EscapeNameFirstOnly(name) ==
    ReplaceFirst(ReplaceFirst(name, "<", EntityLt), ">", EntityGt)

\* name.replace(/</g, '&lt;').replace(/>/g, '&gt;')
EscapeName(name) == ReplaceAll(ReplaceAll(name, "<", EntityLt), ">", EntityGt)

\* The characters encodeURIComponent leaves alone.
Unreserved ==
    { "a", "b", "c", "d", "e", "f", "g", "h", "i", "j", "k", "l", "m",
      "n", "o", "p", "q", "r", "s", "t", "u", "v", "w", "x", "y", "z",
      "A", "B", "C", "D", "E", "F", "G", "H", "I", "J", "K", "L", "M",
      "N", "O", "P", "Q", "R", "S", "T", "U", "V", "W", "X", "Y", "Z",
      "0", "1", "2", "3", "4", "5", "6", "7", "8", "9",
      "-", "_", ".", "!", "~", "*", "'", "(", ")" }

\* The two hexadecimal digits of the other ASCII characters the inputs use.
HexOf(c) ==
    CASE c = " " -> <<"2", "0">>
      [] c = "%" -> <<"2", "5">>
      [] c = "&" -> <<"2", "6">>
      [] c = "+" -> <<"2", "B">>
      [] c = "/" -> <<"2", "F">>
      [] c = "<" -> <<"3", "C">>
      [] c = "=" -> <<"3", "D">>
      [] c = ">" -> <<"3", "E">>
      [] c = "?" -> <<"3", "F">>
      [] c = "@" -> <<"4", "0">>

RECURSIVE encodeURIComponent(_)
encodeURIComponent(s) ==
    IF s = <<>> THEN <<>>
    ELSE (IF Head(s) \in Unreserved THEN <<Head(s)>> ELSE <<"%">> \o HexOf(Head(s)))
         \o encodeURIComponent(Tail(s))

\* Deno.env.get("APP_URL") || the default; the default is modelled.
appUrl == <<"h", "t", "t", "p", "s", ":", "/", "/", "r", "e", "g", "i", "s", "t", "e", "r", ".", "u", "s", "l", "a", "c", "c", "a", "f", "r", "i", "c", "a", ".", "o", "r", "g">>

VerifyPath == <<"/", "v", "e", "r", "i", "f", "y", "-", "e", "m", "a", "i", "l", "?", "t", "o", "k", "e", "n", "=">>

\* `${appUrl}/verify-email?token=${encodeURIComponent(verificationToken)}`
VerificationLink(verificationToken) ==
    appUrl \o VerifyPath \o encodeURIComponent(verificationToken)

\* The static text of the template is abbreviated to the markup that
\* surrounds each interpolation: the name, the href and the plain-text link.
HtmlBeforeName == <<"D", "e", "a", "r", " ", "<", "s", "t", "r", "o", "n", "g", ">">>
HtmlAfterName == <<"<", "/", "s", "t", "r", "o", "n", "g", ">", ",", "<", "a", " ", "h", "r", "e", "f", "=", "\"">>
HtmlAfterHref == <<"\"", ">", "V", "e", "r", "i", "f", "y", " ", "E", "m", "a", "i", "l", " ", "A", "d", "d", "r", "e", "s", "s", "<", "/", "a", ">", "<", "p", ">">>
HtmlAfterLink == <<"<", "/", "p", ">">>

htmlContent(name, verificationLink) ==
    HtmlBeforeName \o EscapeName(name) \o HtmlAfterName \o verificationLink
        \o HtmlAfterHref \o verificationLink \o HtmlAfterLink

\* The argument of client.send.
NoMail == [to |-> <<>>, html |-> <<>>]

MailMessage(email, html) == [to |-> email, html |-> html]

(***************************************************************************)
(* The registrations table, as the handler reads it.                       *)
(***************************************************************************)
RegR1 == <<"R", "1">>
RegR2 == <<"R", "2">>
RegR9 == <<"R", "9">>

EmailLower == <<"a", "@", "b", ".", "c", "o">>
EmailUpper == <<"A", "@", "b", ".", "c", "o">>
TokenT1 == <<"T", "1">>
TokenLower == <<"t", "1">>
TokenPercent == <<"T", "%", "2", "0">>

\* maybeSingle() found no row.
NoRecord ==
    [exists |-> FALSE, id |-> <<>>, email |-> <<>>, verification_token |-> <<>>,
     verified |-> FALSE, created_at |-> 0]

\* A row of the columns the handler selects and reads (full_name is selected
\* and never read).
Row(id, email, token, verified, created_at) ==
    [exists |-> TRUE, id |-> id, email |-> email, verification_token |-> token,
     verified |-> verified, created_at |-> created_at]

\* .from("registrations").select(...).eq("id", registrationId).maybeSingle()
Lookup(table, registrationId) ==
    IF registrationId \in DOMAIN table THEN table[registrationId] ELSE NoRecord

\* The tables a run starts from: each row is either pending or verified.
TwoRowTables ==
    { (RegR1 :> Row(RegR1, EmailLower, TokenT1, v1, 1000000))
        @@ (RegR2 :> Row(RegR2, EmailUpper, TokenPercent, v2, 2000000))
      : v1 \in BOOLEAN, v2 \in BOOLEAN }

OneRowTables == { (RegR1 :> Row(RegR1, EmailLower, TokenT1, FALSE, 1000000)) }

(***************************************************************************)
(* The clock.  new Date() at the rate-limit check returns the record's     *)
(* created_at plus one of these elapsed times in milliseconds: before the  *)
(* creation (clock skew), early, on and one millisecond beside each edge   *)
(* of the cooldown window, inside it, and late.                            *)
(***************************************************************************)
ElapsedSamples == {0 - 1000, 0, 3000, 5000, 5001, 30000, 59999, 60000, 90000}

NowValues(registration) == { registration.created_at + e : e \in ElapsedSamples }

\* (now.getTime() - createdAt.getTime()), the numerator of secondsSinceCreation.
MsSinceCreation(registration, now) == now - registration.created_at

RateLimitedInclusive(ms) == ms >= ExemptSeconds * 1000 /\ ms < WindowSeconds * 1000

\* secondsSinceCreation > 5 && secondsSinceCreation < 60, with
\* secondsSinceCreation = ms / 1000 compared on the millisecond scale.
RateLimited(ms) == ms > ExemptSeconds * 1000 /\ ms < WindowSeconds * 1000

\* Characters compared without regard to case (for the letters the inputs use).
Fold(s) ==
    [i \in 1..Len(s) |->
        CASE s[i] = "A" -> "a" [] s[i] = "T" -> "t" [] OTHER -> s[i]]

MismatchFolded(registration, email, verificationToken) ==
    \/ Fold(registration.email) # Fold(email)
    \/ Fold(registration.verification_token) # Fold(verificationToken)

\* registration.email !== email || registration.verification_token !== verificationToken
Mismatch(registration, email, verificationToken) ==
    \/ registration.email # email
    \/ registration.verification_token # verificationToken

AlreadyVerifiedNever(registration) == FALSE

\* if (registration.verified)
AlreadyVerified(registration) == registration.verified

(***************************************************************************)
(* Requests.                                                               *)
(***************************************************************************)
\* The body of a request: text that is not JSON, the JSON null, or a JSON
\* object with any of the four fields present.  (A JSON number, string or
\* array has none of the fields and behaves as the object without them.)
Body(kind, name, email, registrationId, verificationToken) ==
    [kind |-> kind, name |-> name, email |-> email,
     registrationId |-> registrationId, verificationToken |-> verificationToken]

MalformedBody == Body("malformed", Undefined, Undefined, Undefined, Undefined)
NullBody == Body("null", Undefined, Undefined, Undefined, Undefined)
NoBody == Body("none", Undefined, Undefined, Undefined, Undefined)

LongString(n) == [i \in 1..n |-> "a"]

NameValues ==
    { Undefined, Num(<<"7">>), Str(<<>>), Str(<<"A", "l">>),
      Str(<<"A", "<", "b", ">">>), Str(LongString(MaxNameLen + 1)) }

EmailValues ==
    { Undefined, Num(<<"7">>), Str(EmailLower), Str(EmailUpper),
      Str(<<"a", "b", ".", "c", "o">>), Str(LongString(MaxEmailLen + 1)) }

RegistrationIdValues ==
    { Undefined, Num(<<"7">>), Str(RegR1), Str(RegR2), Str(RegR9) }

TokenValues ==
    { Undefined, Num(<<"7">>), Str(TokenT1), Str(TokenLower), Str(TokenPercent) }

ObjectBodies ==
    { Body("object", n, e, i, t) :
        n \in NameValues, e \in EmailValues,
        i \in RegistrationIdValues, t \in TokenValues }

\* Every string of at most n characters of the alphabet.
RECURSIVE StringsUpTo(_, _)
StringsUpTo(alphabet, n) ==
    IF n = 0 THEN { <<>> }
    ELSE LET shorter == StringsUpTo(alphabet, n - 1)
         IN  shorter \cup { Append(s, c) : s \in shorter, c \in alphabet }

NameAlphabet == {"a", "<", ">", "&"}

ComposerBodies ==
    { Body("object", Str(n), Str(EmailLower), Str(RegR1), Str(TokenT1)) :
        n \in StringsUpTo(NameAlphabet, MaxLen) }

ValidBodyR1 ==
    Body("object", Str(<<"A", "<", "b", ">">>), Str(EmailLower), Str(RegR1), Str(TokenT1))

ConcurrentBodies ==
    { ValidBodyR1,
      Body("object", Str(<<"A", "l">>), Str(EmailLower), Str(RegR1), Str(TokenLower)) }

\* The handler's locals at the start of a request.
NewRequest(method, body) ==
    [method |-> method, body |-> body, pc |-> "received",
     regError |-> FALSE, registration |-> NoRecord, now |-> 0,
     lookups |-> 0, sendCalls |-> 0, mail |-> NoMail, sent |-> FALSE,
     error |-> "none", response |-> NoResponse]

Arrivals(bodies) ==
    { NewRequest("OPTIONS", NoBody) }
        \cup { NewRequest("POST", b) : b \in bodies \cup {MalformedBody, NullBody} }

\* One request with every kind of payload, against a table of two rows.
Init ==
    /\ db \in TwoRowTables
    /\ req \in [{1} -> Arrivals(ObjectBodies)]

\* One request with every short name, for the composer.
InitCompose ==
    /\ db \in OneRowTables
    /\ req \in [{1} -> Arrivals(ComposerBodies)]

\* Several requests in flight for the same registration.
InitConcurrent ==
    /\ db \in OneRowTables
    /\ req \in [1..NumReqs -> Arrivals(ConcurrentBodies)]

(***************************************************************************)
(* The handler, one action per stretch of code between two awaits.         *)
(***************************************************************************)
\* return new Response(...)
Finish(q, response) == [q EXCEPT !.pc = "done", !.response = response]

\* catch (error) { ... return 500 "Failed to send email" }
Catch(q, error) == [q EXCEPT !.pc = "done", !.error = error, !.response = CatchResponse]

\* if (req.method === "OPTIONS") return new Response(null, { headers: corsHeaders })
Options(r) ==
    /\ req[r].pc = "received"
    /\ req[r].method = "OPTIONS"
    /\ req' = [req EXCEPT ![r] = Finish(@, OptionsResponse)]
    /\ UNCHANGED db

\* const requestData = await req.json(): rejects when the body is not JSON.
Parse(r) ==
    /\ req[r].pc = "received"
    /\ req[r].method # "OPTIONS"
    /\ req' = [req EXCEPT ![r] =
                 IF @.body.kind = "malformed"
                 THEN Catch(@, "SyntaxError")
                 ELSE [@ EXCEPT !.pc = "parsed"]]
    /\ UNCHANGED db

\* validateInput(requestData) reads data.name first, which throws a TypeError
\* when requestData is null; a validation error is answered with 400; a valid
\* payload issues the lookup.
Validate(r) ==
    /\ req[r].pc = "parsed"
    /\ req' = [req EXCEPT ![r] =
                 IF @.body.kind = "null"
                 THEN Catch(@, "TypeError")
                 ELSE IF validateInput(@.body) # NoError
                 THEN Finish(@, ErrorResponse(400, validateInput(@.body)))
                 ELSE [@ EXCEPT !.pc = "lookup", !.lookups = @ + 1]]
    /\ UNCHANGED db

\* The lookup that treats a failed query as an empty result.
LookupReturnIgnoringError(r) ==
    /\ req[r].pc = "lookup"
    /\ \E failed \in BOOLEAN :
         req' = [req EXCEPT ![r] =
                   LET registration ==
                           IF failed THEN NoRecord
                           ELSE Lookup(db, @.body.registrationId.v)
                   IN  IF ~registration.exists
                       THEN Finish([@ EXCEPT !.regError = failed],
                                   ErrorResponse(404, "Registration not found"))
                       ELSE [@ EXCEPT !.registration = registration,
                                      !.pc = "checking"]]
    /\ UNCHANGED db

\* const { data: registration, error: regError } = await supabase...maybeSingle();
\* if (regError) 500 "Database error"; if (!registration) 404.
LookupReturn(r) ==
    /\ req[r].pc = "lookup"
    /\ \E failed \in BOOLEAN :
         req' = [req EXCEPT ![r] =
                   LET registration == Lookup(db, @.body.registrationId.v)
                   IN  IF failed
                       THEN Finish([@ EXCEPT !.regError = TRUE],
                                   ErrorResponse(500, "Database error"))
                       ELSE IF ~registration.exists
                       THEN Finish(@, ErrorResponse(404, "Registration not found"))
                       ELSE [@ EXCEPT !.registration = registration,
                                      !.pc = "checking"]]
    /\ UNCHANGED db

\* The match, state and rate-limit checks, then the composition and the call
\* of client.send, for the locals q of a request and the clock reading now.
GateResult(q, now) ==
    LET email == q.body.email.v
        verificationToken == q.body.verificationToken.v
    IN  IF Mismatch(q.registration, email, verificationToken)
        THEN Finish(q, ErrorResponse(400, "Invalid request"))
        ELSE IF AlreadyVerified(q.registration)
        THEN Finish(q, ErrorResponse(400, "Email already verified"))
        ELSE IF RateLimited(MsSinceCreation(q.registration, now))
        THEN Finish([q EXCEPT !.now = now],
                    ErrorResponse(429, "Please wait before requesting another email"))
        ELSE [q EXCEPT !.now = now,
                       !.mail = MailMessage(email,
                                    htmlContent(q.body.name.v,
                                                VerificationLink(verificationToken))),
                       !.sendCalls = @ + 1,
                       !.pc = "sending"]

\* A gate that remembers, across requests, that a mail went out for the
\* registration and refuses the next request for it.
GateDedup(r) ==
    /\ req[r].pc = "checking"
    /\ \E now \in NowValues(req[r].registration) :
         req' = [req EXCEPT ![r] =
                   IF \E o \in DOMAIN req \ {r} :
                          /\ req[o].sendCalls > 0
                          /\ req[o].registration.id = @.registration.id
                   THEN Finish(@, ErrorResponse(429,
                                   "Please wait before requesting another email"))
                   ELSE GateResult(@, now)]
    /\ UNCHANGED db

Gate(r) ==
    /\ req[r].pc = "checking"
    /\ \E now \in NowValues(req[r].registration) :
         req' = [req EXCEPT ![r] = GateResult(@, now)]
    /\ UNCHANGED db

\* A send whose failure is swallowed.
SendReturnSwallow(r) ==
    /\ req[r].pc = "sending"
    /\ \E ok \in BOOLEAN :
         req' = [req EXCEPT ![r] =
                   IF ok THEN [@ EXCEPT !.sent = TRUE, !.pc = "closing"]
                   ELSE [@ EXCEPT !.error = "SmtpSendError", !.pc = "closing"]]
    /\ UNCHANGED db

\* await client.send({...}): resolves, or throws into the catch block.
SendReturn(r) ==
    /\ req[r].pc = "sending"
    /\ \E ok \in BOOLEAN :
         req' = [req EXCEPT ![r] =
                   IF ok THEN [@ EXCEPT !.sent = TRUE, !.pc = "closing"]
                   ELSE Catch(@, "SmtpSendError")]
    /\ UNCHANGED db

\* await client.close(): resolves and the handler answers 200, or throws.
CloseReturn(r) ==
    /\ req[r].pc = "closing"
    /\ \E ok \in BOOLEAN :
         req' = [req EXCEPT ![r] =
                   IF ok THEN Finish(@, SuccessResponse)
                   ELSE Catch(@, "SmtpCloseError")]
    /\ UNCHANGED db

\* Any step of the handler for request r.
HandlerStep(r) ==
    \/ Options(r)
    \/ Parse(r)
    \/ Validate(r)
    \/ LookupReturn(r)
    \/ Gate(r)
    \/ SendReturn(r)
    \/ CloseReturn(r)

(***************************************************************************)
(* The environment: the separate confirmation flow marks a row verified.   *)
(***************************************************************************)
ConfirmVerification(id) ==
    /\ ~db[id].verified
    /\ db' = [db EXCEPT ![id].verified = TRUE]
    /\ UNCHANGED req

Next ==
    \/ \E r \in DOMAIN req : Options(r)
    \/ \E r \in DOMAIN req : Parse(r)
    \/ \E r \in DOMAIN req : Validate(r)
    \/ \E r \in DOMAIN req : LookupReturn(r)
    \/ \E r \in DOMAIN req : Gate(r)
    \/ \E r \in DOMAIN req : SendReturn(r)
    \/ \E r \in DOMAIN req : CloseReturn(r)
    \/ \E id \in DOMAIN db : ConfirmVerification(id)

Spec == Init /\ [][Next]_vars

SpecCompose == InitCompose /\ [][Next]_vars

SpecConcurrent == InitConcurrent /\ [][Next]_vars

(***************************************************************************)
(* Vocabulary of the properties.                                           *)
(***************************************************************************)
Done(q) == q.pc = "done"

IsPost(q) == q.method = "POST"

\* The payload is JSON and passes shape validation.
WellFormed(q) == q.body.kind = "object" /\ validateInput(q.body) = NoError

\* The payload is JSON and one of the four fields is missing or not a string.
MissingOrMistyped(body) ==
    /\ body.kind \in {"null", "object"}
    /\ \/ body.name.t # "string"
       \/ body.email.t # "string"
       \/ body.registrationId.t # "string"
       \/ body.verificationToken.t # "string"

\* The lookup of the request returned a record.
Found(q) == q.lookups = 1 /\ ~q.regError /\ q.registration.exists

Matches(q) ==
    /\ q.registration.email = q.body.email.v
    /\ q.registration.verification_token = q.body.verificationToken.v

\* The request has left the gate: all of its checks have been evaluated.
PastGate(q) == q.pc \in {"sending", "closing", "done"}

Elapsed(q) == q.now - q.registration.created_at

InWindow(ms) == 5000 < ms /\ ms < 60000

RateLimitResponse ==
    ErrorResponse(429, "Please wait before requesting another email")

(***************************************************************************)
(* C1: every POST payload in which name, email, registrationId or          *)
(* verificationToken is missing or is not a string is answered with 400,   *)
(* and no lookup is issued for it.                                         *)
(***************************************************************************)
C1_MissingFieldRejectedBeforeLookup ==
    \A r \in DOMAIN req :
        (IsPost(req[r]) /\ MissingOrMistyped(req[r].body)) =>
            /\ req[r].lookups = 0
            /\ Done(req[r]) => req[r].response.status = 400

(***************************************************************************)
(* C2: a request that passed shape, lookup, match and state validation is  *)
(* answered 429 "Please wait before requesting another email" exactly when *)
(* 5 s < elapsed < 60 s; at every elapsed <= 5 s and >= 60 s it is not     *)
(* rate-limited and its mail-send call is issued.                          *)
(***************************************************************************)
C2_RateLimitWindow ==
    \A r \in DOMAIN req :
        LET q == req[r]
        IN  (/\ IsPost(q) /\ WellFormed(q) /\ Found(q) /\ Matches(q)
             /\ ~q.registration.verified /\ PastGate(q)) =>
                /\ q.now \in NowValues(q.registration)
                /\ InWindow(Elapsed(q)) <=> (Done(q) /\ q.response = RateLimitResponse)
                /\ InWindow(Elapsed(q)) => q.sendCalls = 0
                /\ ~InWindow(Elapsed(q)) => q.sendCalls = 1

\* A request exactly 5 s after created_at has gone on to send.
C2_Witness ==
    \E r \in DOMAIN req :
        /\ WellFormed(req[r]) /\ Found(req[r]) /\ Matches(req[r])
        /\ req[r].now # 0
        /\ Elapsed(req[r]) = 5000
        /\ req[r].sendCalls = 1

(***************************************************************************)
(* C3, as claimed: every well-formed request whose looked-up record has    *)
(* verified = true is answered 400 "Email already verified", and no mail   *)
(* is sent.                                                                *)
(***************************************************************************)
C3_VerifiedAlwaysRejectedAsVerified ==
    \A r \in DOMAIN req :
        LET q == req[r]
        IN  (/\ IsPost(q) /\ WellFormed(q) /\ Found(q)
             /\ q.registration.verified /\ Done(q)) =>
                /\ q.response = ErrorResponse(400, "Email already verified")
                /\ q.sendCalls = 0

(***************************************************************************)
(* C3, amended: every well-formed request whose email and verification     *)
(* token equal those of the looked-up record, and whose looked-up record   *)
(* has verified = true, is answered 400 "Email already verified" without   *)
(* the clock being read, and no mail is sent.                              *)
(***************************************************************************)
C3_MatchingVerifiedRejected ==
    \A r \in DOMAIN req :
        LET q == req[r]
        IN  (/\ IsPost(q) /\ WellFormed(q) /\ Found(q) /\ Matches(q)
             /\ q.registration.verified /\ q.pc # "checking") =>
                /\ Done(q)
                /\ q.response = ErrorResponse(400, "Email already verified")
                /\ q.sendCalls = 0
                /\ q.now = 0

C3_Witness ==
    \E r \in DOMAIN req :
        /\ WellFormed(req[r]) /\ Found(req[r]) /\ Matches(req[r])
        /\ req[r].registration.verified
        /\ Done(req[r])
        /\ req[r].response = ErrorResponse(400, "Email already verified")

(***************************************************************************)
(* C4: a well-formed request whose registrationId finds a record, but      *)
(* whose email or verification token is not character for character the    *)
(* record's, is answered 400 "Invalid request" and issues no mail-send     *)
(* call, whatever the record's verified flag and age.                      *)
(***************************************************************************)
C4_MismatchRejected ==
    \A r \in DOMAIN req :
        LET q == req[r]
        IN  (/\ IsPost(q) /\ WellFormed(q) /\ Found(q) /\ ~Matches(q)) =>
                /\ q.pc \in {"checking", "done"}
                /\ q.sendCalls = 0
                /\ Done(q) => q.response = ErrorResponse(400, "Invalid request")

\* The email differs from the record's in case only, the record is verified.
C4_Witness ==
    \E r \in DOMAIN req :
        /\ Found(req[r])
        /\ req[r].registration.verified
        /\ req[r].registration.email = EmailLower
        /\ req[r].body.email.v = EmailUpper
        /\ req[r].registration.verification_token = req[r].body.verificationToken.v
        /\ Done(req[r])
        /\ req[r].response = ErrorResponse(400, "Invalid request")

(***************************************************************************)
(* C5: a failed lookup is answered 500 "Database error", a lookup without  *)
(* a record 404 "Registration not found", and an exception of the mail     *)
(* send or of the close after it 500 "Failed to send email", the same      *)
(* response for every such exception; none of them is answered 200.        *)
(***************************************************************************)
C5_DependencyFailures ==
    \A r \in DOMAIN req :
        LET q == req[r]
        IN  /\ q.regError =>
                /\ Done(q)
                /\ q.response = ErrorResponse(500, "Database error")
            /\ (Done(q) /\ q.lookups = 1 /\ ~q.regError /\ ~q.registration.exists) =>
                q.response = ErrorResponse(404, "Registration not found")
            /\ q.error \in {"SmtpSendError", "SmtpCloseError"} =>
                /\ Done(q)
                /\ q.response = ErrorResponse(500, "Failed to send email")
            /\ (\/ q.regError
                \/ q.lookups = 1 /\ ~q.registration.exists
                \/ q.error \in {"SmtpSendError", "SmtpCloseError"}) =>
                q.response.status # 200

\* The mail went out and the close after it threw.
C5_Witness ==
    \E r \in DOMAIN req :
        /\ req[r].error = "SmtpCloseError"
        /\ req[r].sent
        /\ req[r].response = ErrorResponse(500, "Failed to send email")

(***************************************************************************)
(* C6, as claimed: every response, that of OPTIONS included, carries the   *)
(* two CORS headers and Content-Type: application/json.                    *)
(***************************************************************************)
C6_EveryResponseCorsAndJson ==
    \A r \in DOMAIN req :
        Done(req[r]) =>
            /\ corsHeaders \subseteq req[r].response.headers
            /\ <<"Content-Type", "application/json">> \in req[r].response.headers

(***************************************************************************)
(* C6, amended: every response carries the two CORS headers, and every     *)
(* response to a POST carries Content-Type: application/json as well; the  *)
(* response to OPTIONS carries the CORS headers only.                      *)
(***************************************************************************)
C6_CorsAlwaysJsonOnPost ==
    \A r \in DOMAIN req :
        Done(req[r]) =>
            /\ <<"Access-Control-Allow-Origin", "*">> \in req[r].response.headers
            /\ \E h \in req[r].response.headers : h[1] = "Access-Control-Allow-Headers"
            /\ IsPost(req[r]) =>
                <<"Content-Type", "application/json">> \in req[r].response.headers
            /\ ~IsPost(req[r]) =>
                \A h \in req[r].response.headers : h[1] # "Content-Type"

C6_Witness ==
    \E r \in DOMAIN req :
        /\ req[r].method = "OPTIONS"
        /\ Done(req[r])
        /\ req[r].response.headers = corsHeaders

(***************************************************************************)
(* C7: every POST request runs the checks in the order shape, lookup,      *)
(* match, state, rate limit, the first failing check deciding the          *)
(* response; 200 and 500 "Failed to send email" are given only by a        *)
(* request that entered Sending, and Sending is entered only after all     *)
(* five checks passed.                                                     *)
(***************************************************************************)
C7_StateMachine ==
    \A r \in DOMAIN req :
        LET q == req[r]
        IN  IsPost(q) =>
              /\ (Done(q) /\ q.response \in {SuccessResponse, CatchResponse}) =>
                    q.sendCalls = 1
              /\ q.sendCalls = 1 =>
                    /\ WellFormed(q) /\ Found(q) /\ Matches(q)
                    /\ ~q.registration.verified
                    /\ ~InWindow(Elapsed(q))
              /\ (Done(q) /\ q.sendCalls = 0) =>
                    \/ /\ ~WellFormed(q)
                       /\ q.response.status = 400
                       /\ q.lookups = 0
                    \/ /\ WellFormed(q) /\ q.regError
                       /\ q.response = ErrorResponse(500, "Database error")
                    \/ /\ WellFormed(q) /\ ~q.regError /\ ~q.registration.exists
                       /\ q.response = ErrorResponse(404, "Registration not found")
                    \/ /\ Found(q) /\ ~Matches(q)
                       /\ q.response = ErrorResponse(400, "Invalid request")
                    \/ /\ Found(q) /\ Matches(q) /\ q.registration.verified
                       /\ q.response = ErrorResponse(400, "Email already verified")
                    \/ /\ Found(q) /\ Matches(q) /\ ~q.registration.verified
                       /\ InWindow(Elapsed(q))
                       /\ q.response = RateLimitResponse

(***************************************************************************)
(* C8: no step of the handler writes the registrations table or touches    *)
(* another request, and the response of a request is decided by its own    *)
(* payload, the record it read, the clock it read and its own send result  *)
(* alone; so of two requests with the same valid payload, each read        *)
(* outside the cooldown window reaches its mail-send call.                 *)
(***************************************************************************)
\* The response the request's own inputs decide.
OwnOutcome(q) ==
    IF q.method = "OPTIONS" THEN OptionsResponse
    ELSE IF q.body.kind # "object" THEN CatchResponse
    ELSE IF validateInput(q.body) # NoError
    THEN ErrorResponse(400, validateInput(q.body))
    ELSE IF q.regError THEN ErrorResponse(500, "Database error")
    ELSE IF ~q.registration.exists THEN ErrorResponse(404, "Registration not found")
    ELSE IF ~Matches(q) THEN ErrorResponse(400, "Invalid request")
    ELSE IF q.registration.verified THEN ErrorResponse(400, "Email already verified")
    ELSE IF InWindow(Elapsed(q)) THEN RateLimitResponse
    ELSE IF q.error # "none" THEN CatchResponse
    ELSE SuccessResponse

\* The request is valid against the record it read, which is pending, and
\* it read the clock outside the cooldown window.
ValidOutsideWindow(q) ==
    /\ PastGate(q) /\ Found(q) /\ Matches(q)
    /\ ~q.registration.verified
    /\ ~InWindow(Elapsed(q))
    /\ IsPost(q) /\ WellFormed(q)

\* What the step that moved request q left behind, beside the requests rest.
IndependentOutcome(q, rest) ==
    /\ Done(q) => q.response = OwnOutcome(q)
    /\ ValidOutsideWindow(q) =>
        /\ q.sendCalls = 1
        /\ \A o \in rest :
            (o.body = q.body /\ ValidOutsideWindow(o)) => o.sendCalls = 1

\* C8: every step moves one request, leaves the table and the other requests
\* as they were, and leaves that request with the outcome of its own inputs.
C8_RequestsIndependent ==
    [][\A r \in DOMAIN req :
         req'[r] # req[r] =>
            /\ db' = db
            /\ \A o \in DOMAIN req \ {r} : req'[o] = req[o]
            /\ IndependentOutcome(req'[r], { req'[o] : o \in DOMAIN req \ {r} })]_vars

\* Two requests with the same valid payload have both been answered 200.
C8_Witness ==
    \E r1, r2 \in DOMAIN req :
        /\ r1 # r2
        /\ req[r1].body = ValidBodyR1 /\ req[r2].body = ValidBodyR1
        /\ req[r1].response = SuccessResponse
        /\ req[r2].response = SuccessResponse

(***************************************************************************)
(* C9: for every name that shape validation accepts, the HTML body holds,  *)
(* where the name is interpolated, the name with every "<" replaced by     *)
(* "&lt;" and every ">" by "&gt;"; no "<" or ">" of the name is raw in     *)
(* the body.                                                               *)
(***************************************************************************)
\* The name with each character replaced on its own, in one pass.
RECURSIVE EntityEscaped(_)
EntityEscaped(name) ==
    IF name = <<>> THEN <<>>
    ELSE (CASE Head(name) = "<" -> <<"&", "l", "t", ";">>
            [] Head(name) = ">" -> <<"&", "g", "t", ";">>
            [] OTHER -> <<Head(name)>>)
         \o EntityEscaped(Tail(name))

\* The part of s that starts at position from and is n characters long.
Part(s, from, n) == SubSeq(s, from, from + n - 1)

C9_NameEscaped ==
    \A r \in DOMAIN req :
        req[r].sendCalls = 1 =>
            LET name == req[r].body.name.v
                html == req[r].mail.html
                want == EntityEscaped(name)
                at == Len(HtmlBeforeName) + 1
            IN  /\ Part(html, 1, Len(HtmlBeforeName)) = HtmlBeforeName
                /\ Part(html, at, Len(want)) = want
                /\ Part(html, at + Len(want), Len(HtmlAfterName)) = HtmlAfterName
                /\ \A i \in at..(at + Len(want) - 1) : html[i] \notin {"<", ">"}

\* A mail went out for a name with two "<" and a ">".
C9_Witness ==
    \E r \in DOMAIN req :
        /\ req[r].sendCalls = 1
        /\ req[r].body.name.v = <<"<", ">", "<">>
        /\ req[r].sent

(***************************************************************************)
(* C10: a request issues at most one mail-send call, and issues it only if *)
(* the record it read exists, has the request's email and verification     *)
(* token, is not verified, and the elapsed time is not strictly between 5  *)
(* and 60 seconds; the mail is addressed to that email and its link ends   *)
(* in the percent-encoded token of the request; 200 is answered only after *)
(* that one call completed without error.                                  *)
(***************************************************************************)
\* The character a percent escape stands for.
CharOfHex(h) ==
    CASE h = <<"2", "0">> -> " "
      [] h = <<"2", "5">> -> "%"
      [] h = <<"2", "6">> -> "&"
      [] h = <<"2", "B">> -> "+"
      [] h = <<"2", "F">> -> "/"
      [] h = <<"3", "C">> -> "<"
      [] h = <<"3", "D">> -> "="
      [] h = <<"3", "E">> -> ">"
      [] h = <<"3", "F">> -> "?"
      [] h = <<"4", "0">> -> "@"
      [] OTHER -> "?"

\* decodeURIComponent, for well-formed escapes; a stray "%" is kept.
RECURSIVE PercentDecoded(_)
PercentDecoded(s) ==
    IF s = <<>> THEN <<>>
    ELSE IF Head(s) = "%" /\ Len(s) >= 3
    THEN <<CharOfHex(SubSeq(s, 2, 3))>> \o PercentDecoded(SubSeq(s, 4, Len(s)))
    ELSE <<Head(s)>> \o PercentDecoded(Tail(s))

\* The href of the mail is the base URL, the path and an encoded token that
\* decodes to token and holds no character that would end the parameter.
LinkCarries(html, name, token) ==
    LET at == Len(HtmlBeforeName) + Len(EntityEscaped(name)) + Len(HtmlAfterName) + 1
        base == appUrl \o VerifyPath
    IN  /\ Part(html, at, Len(base)) = base
        /\ \E n \in 1..(Len(html) - at) :
             LET encoded == Part(html, at + Len(base), n)
             IN  /\ Part(html, at + Len(base) + n, Len(HtmlAfterHref)) = HtmlAfterHref
                 /\ \A i \in 1..n : encoded[i] \in Unreserved \cup {"%"}
                 /\ PercentDecoded(encoded) = token

C10_SendOnlyWhenAllowed ==
    \A r \in DOMAIN req :
        LET q == req[r]
        IN  /\ q.sendCalls <= 1
            /\ q.sendCalls = 1 =>
                /\ Found(q)
                /\ Matches(q)
                /\ ~q.registration.verified
                /\ ~InWindow(Elapsed(q))
                /\ q.mail.to = q.registration.email
                /\ q.mail.to = q.body.email.v
                /\ LinkCarries(q.mail.html, q.body.name.v, q.body.verificationToken.v)
            /\ q.sent => q.sendCalls = 1
            /\ q.response = SuccessResponse =>
                /\ q.sendCalls = 1
                /\ q.sent
                /\ q.error = "none"

\* 200 for the registration whose token needs percent-encoding.
C10_Witness ==
    \E r \in DOMAIN req :
        /\ req[r].response = SuccessResponse
        /\ req[r].sendCalls = 1
        /\ req[r].body.verificationToken.v = TokenPercent

====
